---- MODULE Spec2Model ----
(***************************************************************************)
(* The three provisioning programs of the repository as one state machine: *)
(*   infra       src/foundation/pulumi/__main__.py                         *)
(*   gitops      src/foundation/gitops/pulumi_deploy/__main__.py            *)
(*   dayservice  src/foundation/applications/day-service/pulumi/__main__.py *)
(* A run evaluates its program top to bottom: configuration reads, the     *)
(* cross-run reference, then one resource registration after the other.    *)
(* The reconciliation engine then realizes the registered resources in any *)
(* order that respects the declared dependencies.                          *)
(*                                                                         *)
(* Strings whose content the code inspects or builds (namespaces, names,   *)
(* hosts, raw configuration values) are tuples of one-character strings.   *)
(***************************************************************************)
EXTENDS Integers, Sequences, FiniteSets, TLC

VARIABLES
  program,     \* which program this run evaluates
  cfg,         \* the stack's configuration store: key -> raw string, or None
  infraStack,  \* what the referenced infrastructure run offers (gitops only)
  pc,          \* position of the evaluation in the program
  val,         \* the program's module-level variables
  resources,   \* the resource declarations registered so far, in program order
  idx,         \* index of the next declaration of the resource block
  err,         \* the error that ended the run, "none" while it has none
  exports,     \* names exported by pulumi.export
  realized,    \* ids of the resources the engine has realized
  alb_hostname,\* the alb_hostname export once the Ingress status resolved it
  app          \* the example workload: its process, clock and last response

vars == <<program, cfg, infraStack, pc, val, resources, idx, err, exports,
          realized, alb_hostname, app>>

---------------------------------------------------------------------------
(* Bounds of the model *)

\* at most this many optional keys are set in the stack's configuration
MaxOptionalSet == 2
\* namespaces are drawn from the strings of at most this length over NsAlphabet
MaxNsLen == 3
\* entries in an Ingress status' load-balancer list
MaxLbEntries == 2
\* ticks of the workload's clock
MaxClock == 2
\* requests the workload serves in one run
MaxRequests == 3

---------------------------------------------------------------------------
(* String literals of the programs *)

None == <<"None">>

S_day == <<"d","a","y">>
S_dusk == <<"d","u","s","k">>
S_rc == <<"r","c">>
S_production == <<"p","r","o","d","u","c","t","i","o","n">>
S_dash == <<"-">>
S_service == <<"-","s","e","r","v","i","c","e">>
S_ingress == <<"-","i","n","g","r","e","s","s">>
S_config == <<"-","c","o","n","f","i","g">>
S_hpa == <<"-","h","p","a">>
S_example_com == <<".","e","x","a","m","p","l","e",".","c","o","m">>
S_namespace == <<"-","n","a","m","e","s","p","a","c","e">>
S_configmap == <<"-","c","o","n","f","i","g","m","a","p">>
S_deployment == <<"-","d","e","p","l","o","y","m","e","n","t">>
S_k8s_service == <<"-","k","8","s","-","s","e","r","v","i","c","e">>
S_resource == <<"-","r","e","s","o","u","r","c","e">>
S_day_service == S_day \o S_service
S_true == <<"t","r","u","e">>
S_True == <<"T","r","u","e">>
S_false == <<"f","a","l","s","e">>
S_False == <<"F","a","l","s","e">>
S_maybe == <<"m","a","y","b","e">>
S_slash == <<"/">>
S_health == <<"/","h","e","a","l","t","h">>
S_ready == <<"/","r","e","a","d","y">>

\* Python's `t in s` on strings
Contains(s, t) ==
  \E i \in 0..(Len(s) - Len(t)) : SubSeq(s, i + 1, i + Len(t)) = t

---------------------------------------------------------------------------
(* The configuration store and its typed accessors (pulumi.Config) *)

Digits == {"0","1","2","3","4","5","6","7","8","9"}

DigitVal(c) ==
  CASE c = "0" -> 0 [] c = "1" -> 1 [] c = "2" -> 2 [] c = "3" -> 3
    [] c = "4" -> 4 [] c = "5" -> 5 [] c = "6" -> 6 [] c = "7" -> 7
    [] c = "8" -> 8 [] c = "9" -> 9

IsDigits(s) == Len(s) > 0 /\ \A i \in 1..Len(s) : s[i] \in Digits

RECURSIVE Num(_)
Num(s) == IF s = <<>> THEN 0
          ELSE Num(SubSeq(s, 1, Len(s) - 1)) * 10 + DigitVal(s[Len(s)])

\* int(v) succeeds: an optional sign and decimal digits
CanInt(s) ==
  \/ IsDigits(s)
  \/ Len(s) > 1 /\ s[1] \in {"-", "+"} /\ IsDigits(Tail(s))

IntOf(s) == IF s[1] = "-" THEN 0 - Num(Tail(s))
            ELSE IF s[1] = "+" THEN Num(Tail(s)) ELSE Num(s)

\* an optional value: Python's None is [has |-> FALSE]
NoInt == [has |-> FALSE, v |-> 0]
NoBool == [has |-> FALSE, v |-> FALSE]

\* config.get(key): the raw string, None when the key is absent
Get(c, key) == c[key]

\* config.get_int(key): None when absent, else int(v); raises when int(v) does
GetIntRaises(c, key) == c[key] # None /\ ~CanInt(c[key])
GetInt(c, key) ==
  IF c[key] = None THEN NoInt ELSE [has |-> TRUE, v |-> IntOf(c[key])]

\* config.get_bool(key): None when absent, True/False for the four spellings,
\* raises for anything else
GetBoolRaises(c, key) ==
  c[key] # None /\ c[key] \notin {S_true, S_True, S_false, S_False}
GetBool(c, key) ==
  IF c[key] = None THEN NoBool
  ELSE [has |-> TRUE, v |-> c[key] \in {S_true, S_True}]

\* config.require(key) raises when the key is absent
RequireRaises(c, key) == c[key] = None

\* Python's `x or d`: d replaces every falsy x (None, 0, False, "")
OrStr(x, d) == IF x = None \/ x = <<>> THEN d ELSE x
OrInt(x, d) == IF x.has /\ x.v # 0 THEN x.v ELSE d
OrBool(x, d) == IF x.has /\ x.v THEN TRUE ELSE d

---------------------------------------------------------------------------
(* The runs the model explores *)

Programs == {"infra", "gitops", "dayservice"}

IntKeys == {"min_nodes", "max_nodes", "desired_nodes", "replicas",
            "min_replicas", "max_replicas", "cpu_target", "memory_target"}
BoolKeys == {"use_spot", "use_stack_reference", "feature_new_ui"}
Keys == {"service_name", "vpc_cidr", "namespace"} \cup IntKeys \cup BoolKeys

\* the keys each program reads with a fallback
OptKeys(p) ==
  CASE p = "infra" -> {"vpc_cidr", "min_nodes", "max_nodes", "desired_nodes",
                       "use_spot"}
    [] p = "gitops" -> {"use_stack_reference", "namespace", "replicas",
                        "min_replicas", "max_replicas", "cpu_target",
                        "memory_target", "feature_new_ui"}
    [] p = "dayservice" -> {"namespace", "replicas", "min_replicas",
                            "max_replicas", "cpu_target", "memory_target",
                            "feature_new_ui"}

IntRaws == {<<"0">>, <<"5">>, <<"1","2">>, <<"1","5","0">>, <<"x">>}
BoolRaws == {S_true, S_false, S_maybe}

NsAlphabet == {"r", "c", "p"}
RECURSIVE StringsUpTo(_)
StringsUpTo(n) ==
  IF n = 0 THEN {<<>>}
  ELSE LET shorter == StringsUpTo(n - 1)
       IN shorter \cup {Append(s, ch) : s \in shorter, ch \in NsAlphabet}
Namespaces == StringsUpTo(MaxNsLen) \cup {S_production}

\* An address block "a.b.c.d/len" is the tuple <<a, b, c, d, len>> of its
\* numerals.
Pow2(n) == CASE n = 0 -> 1 [] n = 1 -> 2 [] n = 2 -> 4 [] n = 3 -> 8
             [] n = 4 -> 16 [] n = 5 -> 32 [] n = 6 -> 64 [] n = 7 -> 128
             [] n = 8 -> 256
\* how many of the len prefix bits fall into octet i
BitsIn(len, i) ==
  LET k == len - 8 * (i - 1) IN IF k < 0 THEN 0 ELSE IF k > 8 THEN 8 ELSE k
\* octet i of the block with the bits after the prefix cleared
Masked(b, i) == (b[i] \div Pow2(8 - BitsIn(b[5], i))) * Pow2(8 - BitsIn(b[5], i))
\* a valid block: octets in range, prefix in range, no bit set after the prefix
ValidBlock(b) ==
  /\ \A i \in 1..4 : b[i] \in 0..255
  /\ b[5] \in 0..32
  /\ \A i \in 1..4 : Masked(b, i) = b[i]
VpcCidrs ==
  {b \in {<<a, o2, c, d, len>> : a \in {0, 10}, o2 \in {0, 16},
                                 c \in {0, 1, 128}, d \in {0},
                                 len \in 0..32} : ValidBlock(b)}

RawsOf(key) ==
  CASE key \in IntKeys -> IntRaws
    [] key \in BoolKeys -> BoolRaws
    [] key = "namespace" -> Namespaces
    [] key = "vpc_cidr" -> VpcCidrs
    [] key = "service_name" -> {S_day, S_dusk}

EmptyStore == [k \in Keys |-> None]

\* the optional keys the store configures
OptionalSet == {k \in OptKeys(program) : cfg[k] # None}

\* the module-level variables before any assignment
NoVal ==
  [service_name |-> None, vpc_cidr |-> None, min_nodes |-> 0, max_nodes |-> 0,
   desired_nodes |-> 0, use_spot |-> FALSE, use_stack_reference |-> FALSE,
   kubeconfig |-> "unset", provider_opts |-> "unset", namespace |-> None,
   tier |-> None, replicas |-> 0, min_replicas |-> 0, max_replicas |-> 0,
   cpu_target |-> 0, memory_target |-> 0, feature_new_ui |-> FALSE]

\* A fresh stack: no optional key is configured. The infrastructure stack may
\* or may not hold its required service_name.
\* the export before the Ingress has a status to resolve it from
Unresolved ==
  [resolved |-> FALSE, status |-> "none",
   result |-> [raised |-> FALSE, value |-> "none"]]

\* the workload before `python main.py`
NotStarted ==
  [state |-> "stopped", env |-> [ENVIRONMENT |-> None, PORT |-> None],
   port |-> 0, clock |-> 0, requests |-> <<>>,
   response |-> [path |-> "none", code |-> 0, at |-> 0, body |-> "none"]]

Init ==
  /\ program \in Programs
  /\ cfg \in (IF program = "infra"
              THEN {[EmptyStore EXCEPT !["service_name"] = s]
                      : s \in {None} \cup RawsOf("service_name")}
              ELSE {EmptyStore})
  /\ infraStack \in (IF program = "gitops"
                     THEN {"missing", "no_kubeconfig", "ok"} ELSE {"na"})
  /\ pc = "start"
  /\ val = NoVal
  /\ resources = <<>>
  /\ idx = 1
  /\ err = "none"
  /\ exports = {}
  /\ realized = {}
  /\ alb_hostname = Unresolved
  /\ app = NotStarted

\* Before the run starts, one more optional key among `keys` is set in the
\* stack's configuration.
ConfigSet(keys) ==
  /\ pc = "start"
  /\ Cardinality(OptionalSet) < MaxOptionalSet
  /\ \E k \in (keys \cap OptKeys(program)) \ OptionalSet :
       \E v \in RawsOf(k) : cfg' = [cfg EXCEPT ![k] = v]
  /\ UNCHANGED <<alb_hostname, app, program, infraStack, pc, val, resources, idx, err, exports,
                 realized>>

Fail(e) ==
  /\ pc' = "failed"
  /\ err' = e
  /\ UNCHANGED <<alb_hostname, app, program, cfg, infraStack, val, resources, idx, exports, realized>>

---------------------------------------------------------------------------
(* The infrastructure program *)

S_vpc == <<"-","v","p","c">>
S_igw == <<"-","i","g","w">>
S_public_subnet_1 == <<"-","p","u","b","l","i","c","-","s","u","b","n","e","t","-","1">>
\* the second subnet's name suffix copied from the first
S_public_subnet_copy == <<"-","p","u","b","l","i","c","-","s","u","b","n","e","t","-","1">>
S_public_subnet_2 == <<"-","p","u","b","l","i","c","-","s","u","b","n","e","t","-","2">>
S_public_rt == <<"-","p","u","b","l","i","c","-","r","t">>
S_public_rt_assoc_1 == S_public_rt \o <<"-","a","s","s","o","c","-","1">>
S_public_rt_assoc_2 == S_public_rt \o <<"-","a","s","s","o","c","-","2">>
S_cluster == <<"-","c","l","u","s","t","e","r">>
S_k8s == <<"-","k","8","s">>
S_alb_controller == <<"-","a","l","b","-","c","o","n","t","r","o","l","l","e","r">>
S_alb_controller_policy == S_alb_controller \o <<"-","p","o","l","i","c","y">>
S_alb_controller_role == S_alb_controller \o <<"-","r","o","l","e">>
S_alb_controller_policy_attachment ==
  S_alb_controller_policy \o <<"-","a","t","t","a","c","h","m","e","n","t">>
S_aws_load_balancer_controller ==
  <<"a","w","s","-","l","o","a","d","-","b","a","l","a","n","c","e","r">>
    \o <<"-","c","o","n","t","r","o","l","l","e","r">>

DefaultVpcCidr == <<10, 0, 0, 0, 16>>

\* vpc_cidr.split('.'): the last part holds the fourth octet and the prefix
SplitDots(b) == <<b[1], b[2], b[3], <<b[4], b[5]>>>>
\* f"{vpc_cidr_parts[0]}.{vpc_cidr_parts[1]}.1.0/24" and ".2.0/24"
Subnet1Cidr(b) == <<SplitDots(b)[1], SplitDots(b)[2], 1, 0, 24>>
\* the second subnet with the first subnet's third octet
Subnet2CidrSameThird(b) == <<SplitDots(b)[1], SplitDots(b)[2], 1, 0, 24>>
Subnet2Cidr(b) == <<SplitDots(b)[1], SplitDots(b)[2], 2, 0, 24>>

InfraConfigRaises(c) ==
  \/ GetIntRaises(c, "min_nodes") \/ GetIntRaises(c, "max_nodes")
  \/ GetIntRaises(c, "desired_nodes") \/ GetBoolRaises(c, "use_spot")

InfraReadConfig ==
  /\ program = "infra" /\ pc = "start"
  /\ IF RequireRaises(cfg, "service_name") THEN Fail("MissingConfigError")
     ELSE IF InfraConfigRaises(cfg) THEN Fail("ConfigTypeError")
     ELSE /\ val' = [val EXCEPT
                  !.service_name = cfg["service_name"],
                  !.vpc_cidr = OrStr(Get(cfg, "vpc_cidr"), DefaultVpcCidr),
                  !.min_nodes = OrInt(GetInt(cfg, "min_nodes"), 1),
                  !.max_nodes = OrInt(GetInt(cfg, "max_nodes"), 3),
                  !.desired_nodes = OrInt(GetInt(cfg, "desired_nodes"), 2),
                  !.use_spot = OrBool(GetBool(cfg, "use_spot"), TRUE)]
          /\ pc' = "declare"
          /\ UNCHANGED <<alb_hostname, app, program, cfg, infraStack, resources, idx, err,
                         exports, realized>>

\* the cluster's arguments: spot_price is added only `if use_spot`
ClusterArgs(v) ==
  [desired_capacity |-> v.desired_nodes, min_size |-> v.min_nodes,
   max_size |-> v.max_nodes, has_spot_price |-> v.use_spot]

InfraDecls(v) ==
  LET sn == v.service_name
      s1 == Subnet1Cidr(v.vpc_cidr)
      s2 == Subnet2Cidr(v.vpc_cidr)
  IN <<
    [id |-> "vpc", type |-> "aws:ec2:Vpc", name |-> sn \o S_vpc,
     provider |-> "default", depends_on |-> {}, refs |-> {},
     cidr_block |-> v.vpc_cidr],
    [id |-> "igw", type |-> "aws:ec2:InternetGateway", name |-> sn \o S_igw,
     provider |-> "default", depends_on |-> {}, refs |-> {"vpc"}],
    [id |-> "public_subnet_1", type |-> "aws:ec2:Subnet",
     name |-> sn \o S_public_subnet_1, provider |-> "default",
     depends_on |-> {}, refs |-> {"vpc"}, cidr_block |-> s1, az |-> "a"],
    [id |-> "public_subnet_2", type |-> "aws:ec2:Subnet",
     name |-> sn \o S_public_subnet_2, provider |-> "default",
     depends_on |-> {}, refs |-> {"vpc"}, cidr_block |-> s2, az |-> "b"],
    [id |-> "public_route_table", type |-> "aws:ec2:RouteTable",
     name |-> sn \o S_public_rt, provider |-> "default", depends_on |-> {},
     refs |-> {"vpc", "igw"}],
    [id |-> "public_rt_association_1", type |-> "aws:ec2:RouteTableAssociation",
     name |-> sn \o S_public_rt_assoc_1, provider |-> "default",
     depends_on |-> {}, refs |-> {"public_subnet_1", "public_route_table"}],
    [id |-> "public_rt_association_2", type |-> "aws:ec2:RouteTableAssociation",
     name |-> sn \o S_public_rt_assoc_2, provider |-> "default",
     depends_on |-> {}, refs |-> {"public_subnet_2", "public_route_table"}],
    [id |-> "cluster", type |-> "eks:Cluster", name |-> sn \o S_cluster,
     provider |-> "default", depends_on |-> {},
     refs |-> {"vpc", "public_subnet_1", "public_subnet_2"},
     args |-> ClusterArgs(v)],
    [id |-> "k8s_provider", type |-> "pulumi:providers:kubernetes",
     name |-> sn \o S_k8s, provider |-> "default", depends_on |-> {},
     refs |-> {"cluster"}],
    [id |-> "alb_policy", type |-> "aws:iam:Policy",
     name |-> sn \o S_alb_controller_policy, provider |-> "default",
     depends_on |-> {}, refs |-> {}],
    [id |-> "alb_role", type |-> "aws:iam:Role",
     name |-> sn \o S_alb_controller_role, provider |-> "default",
     depends_on |-> {}, refs |-> {"cluster"}],
    [id |-> "alb_role_policy_attachment", type |-> "aws:iam:RolePolicyAttachment",
     name |-> sn \o S_alb_controller_policy_attachment, provider |-> "default",
     depends_on |-> {}, refs |-> {"alb_role", "alb_policy"}],
    [id |-> "alb_service_account", type |-> "kubernetes:core/v1:ServiceAccount",
     name |-> S_aws_load_balancer_controller, provider |-> "k8s_provider",
     depends_on |-> {"cluster"}, refs |-> {"alb_role"}],
    [id |-> "alb_controller", type |-> "kubernetes:helm.sh/v3:Release",
     name |-> S_aws_load_balancer_controller, provider |-> "k8s_provider",
     depends_on |-> {"alb_service_account", "alb_role_policy_attachment"},
     refs |-> {"cluster", "vpc"}]
  >>

InfraExports ==
  {"cluster_name", "cluster_endpoint", "kubeconfig", "vpc_id",
   "oidc_provider_arn", "oidc_provider_url", "region",
   "alb_controller_role_arn"}

---------------------------------------------------------------------------
(* The cross-run reference (pulumi.StackReference) *)

\* the outputs the referenced infrastructure run has produced
StackOutputs(stack) == IF stack = "ok" THEN InfraExports ELSE {}

\* pulumi.StackReference(name): reading a run that does not exist fails
StackReferenceRaises(stack) == stack = "missing"

\* get_output in the place of require_output (the call the test scripts make):
\* None when the run has no such output
GetOutput(stack, name) ==
  [raises |-> FALSE,
   value |-> IF name \in StackOutputs(stack) THEN "infra" ELSE "none"]

\* infra_stack.require_output(name): raises when the run has no such output
RequireOutput(stack, name) ==
  IF name \in StackOutputs(stack)
  THEN [raises |-> FALSE, value |-> "infra"]
  ELSE [raises |-> TRUE, value |-> "none"]

---------------------------------------------------------------------------
(* The workload program of gitops/pulumi_deploy *)

S_pulumi == <<"p","u","l","u","m","i">>
S_trantor == <<"t","r","a","n","t","o","r">>
S_k8s_provider_name == <<"k","8","s","-","p","r","o","v","i","d","e","r">>
S_infra_stack_name == <<"r","y","1","1","1","/","f","o","u","n","d","a","t","i","o","n","/","d","a","y">>

\* use_stack_reference: None defaults to True, a configured False is kept
UseStackReference(c) ==
  IF GetBool(c, "use_stack_reference").has
  THEN GetBool(c, "use_stack_reference").v ELSE TRUE

GitopsReadLinkConfig ==
  /\ program = "gitops" /\ pc = "start"
  /\ IF GetBoolRaises(cfg, "use_stack_reference") THEN Fail("ConfigTypeError")
     ELSE /\ val' = [val EXCEPT
                  !.use_stack_reference = UseStackReference(cfg),
                  !.provider_opts = IF UseStackReference(cfg)
                                    THEN "unset" ELSE "none"]
          /\ pc' = IF UseStackReference(cfg) THEN "stack_reference" ELSE "config"
          /\ UNCHANGED <<alb_hostname, app, program, cfg, infraStack, resources, idx, err,
                         exports, realized>>

StackReferenceDecl ==
  [id |-> "infra_stack", type |-> "pulumi:pulumi:StackReference",
   name |-> S_infra_stack_name, provider |-> "default", depends_on |-> {},
   refs |-> {}]

GitopsStackReference ==
  /\ program = "gitops" /\ pc = "stack_reference"
  /\ IF StackReferenceRaises(infraStack) THEN Fail("UnresolvedReference")
     ELSE /\ resources' = Append(resources, StackReferenceDecl)
          /\ pc' = "require_output"
          /\ UNCHANGED <<alb_hostname, app, program, cfg, infraStack, val, idx, err, exports,
                         realized>>

GitopsRequireOutput ==
  /\ program = "gitops" /\ pc = "require_output"
  /\ LET r == RequireOutput(infraStack, "kubeconfig")
     IN IF r.raises THEN Fail("UnresolvedReference")
        ELSE /\ val' = [val EXCEPT !.kubeconfig = r.value]
             /\ pc' = "provider"
             /\ UNCHANGED <<alb_hostname, app, program, cfg, infraStack, resources, idx, err,
                            exports, realized>>

\* k8s.Provider("k8s-provider", kubeconfig=kubeconfig): a kubeconfig of None
\* leaves the provider on the ambient kubeconfig
ProviderDecl(v) ==
  [id |-> "k8s_provider", type |-> "pulumi:providers:kubernetes",
   name |-> S_k8s_provider_name, provider |-> "default", depends_on |-> {},
   refs |-> {"infra_stack"},
   kubeconfig |-> IF v.kubeconfig = "infra" THEN "infra" ELSE "ambient"]

GitopsProvider ==
  /\ program = "gitops" /\ pc = "provider"
  /\ resources' = Append(resources, ProviderDecl(val))
  /\ val' = [val EXCEPT !.provider_opts = "k8s_provider"]
  /\ pc' = "config"
  /\ UNCHANGED <<alb_hostname, app, program, cfg, infraStack, idx, err, exports, realized>>

\* tier = "rc" if "rc" in namespace else "production"
Tier(namespace) == IF Contains(namespace, S_rc) THEN S_rc ELSE S_production

DeploymentName(tier) ==
  IF tier = S_rc THEN S_day \o S_dash \o tier ELSE S_day
\* the service name without the tier conditional
ServiceResourceNameAlwaysTier(tier) == S_day \o S_dash \o tier \o S_service
ServiceResourceName(tier) ==
  IF tier = S_rc THEN S_day \o S_dash \o tier \o S_service
  ELSE S_day \o S_service
IngressName(tier) ==
  IF tier = S_rc THEN S_day \o S_dash \o tier \o S_ingress
  ELSE S_day \o S_ingress
ConfigmapName(tier) ==
  IF tier = S_rc THEN S_day \o S_dash \o tier \o S_config
  ELSE S_day \o S_config
HpaName(tier) ==
  IF tier = S_rc THEN S_day \o S_dash \o tier \o S_hpa ELSE S_day \o S_hpa
\* the host without the tier conditional
IngressHostNoTier(tier) == S_day \o S_example_com
IngressHost(tier) ==
  IF tier = S_rc THEN S_day \o S_dash \o tier \o S_example_com
  ELSE S_day \o S_example_com

\* the typed reads of lines 88-106
WorkloadConfigRaises(c) ==
  \/ GetIntRaises(c, "replicas") \/ GetIntRaises(c, "min_replicas")
  \/ GetIntRaises(c, "max_replicas") \/ GetIntRaises(c, "cpu_target")
  \/ GetIntRaises(c, "memory_target") \/ GetBoolRaises(c, "feature_new_ui")

WorkloadValues(c, v) ==
  [v EXCEPT
     !.namespace = OrStr(Get(c, "namespace"), S_production),
     !.replicas = OrInt(GetInt(c, "replicas"), 3),
     !.min_replicas = OrInt(GetInt(c, "min_replicas"), 2),
     !.max_replicas = OrInt(GetInt(c, "max_replicas"), 10),
     !.cpu_target = OrInt(GetInt(c, "cpu_target"), 70),
     !.memory_target = OrInt(GetInt(c, "memory_target"), 80),
     !.feature_new_ui = OrBool(GetBool(c, "feature_new_ui"), TRUE)]

GitopsReadConfig ==
  /\ program = "gitops" /\ pc = "config"
  /\ IF WorkloadConfigRaises(cfg) THEN Fail("ConfigTypeError")
     ELSE /\ val' = [WorkloadValues(cfg, val) EXCEPT
                       !.tier = Tier(WorkloadValues(cfg, val).namespace)]
          /\ pc' = "declare"
          /\ UNCHANGED <<alb_hostname, app, program, cfg, infraStack, resources, idx, err,
                         exports, realized>>

\* pod labels that leave the tier out
PodLabelsNoTier(tier) == ("app" :> S_day) @@ ("cluster" :> S_trantor)

PodLabels(tier) ==
  ("app" :> S_day) @@ ("tier" :> tier) @@ ("cluster" :> S_trantor)

GitopsLabels(namespace, tier) ==
  ("app" :> S_day) @@ ("managed-by" :> S_pulumi) @@ ("environment" :> namespace)
    @@ ("tier" :> tier) @@ ("cluster" :> S_trantor)

\* deployment_selector: app, and tier for rc
DeploymentSelector(tier) ==
  IF tier = S_rc THEN ("app" :> S_day) @@ ("tier" :> tier) ELSE ("app" :> S_day)

\* a service selector that leaves the tier label out
ServiceSelectorAppOnly(tier) == ("app" :> S_day)

\* service_selector: app, and tier for rc
ServiceSelector(tier) ==
  IF tier = S_rc THEN ("app" :> S_day) @@ ("tier" :> tier) ELSE ("app" :> S_day)

\* resource options that drop the explicit provider
ProviderOfDefault(v) == "default"

\* provider=provider_opts.provider if provider_opts else None
ProviderOf(v) ==
  IF v.provider_opts = "k8s_provider" THEN "k8s_provider" ELSE "default"

\* str(feature_new_ui).lower()
BoolStr(b) == IF b THEN S_true ELSE S_false

GitopsNamespace(v) ==
  [id |-> "ns", type |-> "kubernetes:core/v1:Namespace",
   name |-> v.namespace \o S_namespace, provider |-> ProviderOf(v),
   depends_on |-> {}, refs |-> {}, meta_name |-> v.namespace]

GitopsConfigMap(v) ==
  [id |-> "config_map", type |-> "kubernetes:core/v1:ConfigMap",
   name |-> ConfigmapName(v.tier) \o S_configmap, provider |-> ProviderOf(v),
   depends_on |-> {"ns"}, refs |-> {},
   meta_name |-> ConfigmapName(v.tier), namespace |-> v.namespace,
   labels |-> GitopsLabels(v.namespace, v.tier),
   feature_new_ui |-> BoolStr(v.feature_new_ui)]

GitopsDeployment(v) ==
  [id |-> "deployment", type |-> "kubernetes:apps/v1:Deployment",
   name |-> DeploymentName(v.tier) \o S_deployment, provider |-> ProviderOf(v),
   depends_on |-> {"ns"}, refs |-> {"config_map"},
   meta_name |-> DeploymentName(v.tier), namespace |-> v.namespace,
   labels |-> GitopsLabels(v.namespace, v.tier),
   replicas |-> NoInt,
   selector |-> DeploymentSelector(v.tier),
   template_labels |-> PodLabels(v.tier),
   container_port |-> 8001,
   config_map_ref |-> ConfigmapName(v.tier),
   liveness |-> [path |-> S_health, port |-> 8001],
   readiness |-> [path |-> S_health, port |-> 8001]]

\* the Service's options without depends_on
ServiceOptsNoDependsOn(v) == [provider |-> ProviderOf(v), depends_on |-> {}]

\* the Service's opts: the run's provider, depends_on=[ns]
ServiceOpts(v) == [provider |-> ProviderOf(v), depends_on |-> {"ns"}]

GitopsService(v) ==
  [id |-> "service", type |-> "kubernetes:core/v1:Service",
   name |-> ServiceResourceName(v.tier) \o S_k8s_service,
   provider |-> ServiceOpts(v).provider,
   depends_on |-> ServiceOpts(v).depends_on, refs |-> {},
   meta_name |-> ServiceResourceName(v.tier), namespace |-> v.namespace,
   labels |-> GitopsLabels(v.namespace, v.tier),
   selector |-> ServiceSelector(v.tier),
   port |-> 80, target_port |-> 8001]

\* the autoscaler with the tier-less Deployment name as its scale target
GitopsHpaTargetDay(v) ==
  [id |-> "hpa", type |-> "kubernetes:autoscaling/v2:HorizontalPodAutoscaler",
   name |-> HpaName(v.tier) \o S_resource, provider |-> ProviderOf(v),
   depends_on |-> {"ns"}, refs |-> {},
   meta_name |-> HpaName(v.tier), namespace |-> v.namespace,
   labels |-> GitopsLabels(v.namespace, v.tier),
   scale_target |-> [kind |-> "Deployment", name |-> S_day],
   min_replicas |-> v.min_replicas, max_replicas |-> v.max_replicas,
   cpu_target |-> v.cpu_target, memory_target |-> v.memory_target]

GitopsHpa(v) ==
  [id |-> "hpa", type |-> "kubernetes:autoscaling/v2:HorizontalPodAutoscaler",
   name |-> HpaName(v.tier) \o S_resource, provider |-> ProviderOf(v),
   depends_on |-> {"ns"}, refs |-> {},
   meta_name |-> HpaName(v.tier), namespace |-> v.namespace,
   labels |-> GitopsLabels(v.namespace, v.tier),
   scale_target |-> [kind |-> "Deployment", name |-> DeploymentName(v.tier)],
   min_replicas |-> v.min_replicas, max_replicas |-> v.max_replicas,
   cpu_target |-> v.cpu_target, memory_target |-> v.memory_target]

GitopsIngress(v) ==
  [id |-> "ingress", type |-> "kubernetes:networking.k8s.io/v1:Ingress",
   name |-> IngressName(v.tier) \o S_resource, provider |-> ProviderOf(v),
   depends_on |-> {"ns"}, refs |-> {},
   meta_name |-> IngressName(v.tier), namespace |-> v.namespace,
   labels |-> GitopsLabels(v.namespace, v.tier),
   group_name |-> "trantor-cluster", healthcheck_path |-> S_health,
   host |-> IngressHost(v.tier), path |-> S_slash, path_type |-> "Prefix",
   backend |-> [name |-> ServiceResourceName(v.tier), port |-> 80]]

GitopsDecls(v) ==
  <<GitopsNamespace(v), GitopsConfigMap(v), GitopsDeployment(v),
    GitopsService(v), GitopsHpa(v), GitopsIngress(v)>>

GitopsExports(v) ==
  {"deployment_name", "service_name", "hpa_name", "ingress_name",
   "configmap_name", "namespace", "tier", "replicas", "image", "ingress_host",
   "alb_hostname", "using_stack_reference"}
    \cup (IF v.use_stack_reference THEN {"infra_stack_referenced"} ELSE {})

---------------------------------------------------------------------------
(* The workload program of applications/day-service *)

S_team == <<"d","a","y","-","t","e","a","m">>
S_latest == <<"l","a","t","e","s","t">>

AppName == S_day_service

DayReadConfig ==
  /\ program = "dayservice" /\ pc = "start"
  /\ IF WorkloadConfigRaises(cfg) THEN Fail("ConfigTypeError")
     ELSE /\ val' = [WorkloadValues(cfg, val) EXCEPT !.provider_opts = "none"]
          /\ pc' = "declare"
          /\ UNCHANGED <<alb_hostname, app, program, cfg, infraStack, resources, idx, err,
                         exports, realized>>

DayLabels ==
  ("app" :> AppName) @@ ("team" :> S_team) @@ ("managed-by" :> S_pulumi)
    @@ ("version" :> S_latest)

DayDeploymentSelector == ("app" :> AppName)
DayServiceSelector == ("app" :> AppName)

DayConfigMap(v) ==
  [id |-> "config_map", type |-> "kubernetes:core/v1:ConfigMap",
   name |-> AppName \o S_config, provider |-> "default",
   depends_on |-> {}, refs |-> {},
   meta_name |-> AppName \o S_config, namespace |-> v.namespace,
   labels |-> DayLabels, feature_new_ui |-> BoolStr(v.feature_new_ui)]

DayDeployment(v) ==
  [id |-> "deployment", type |-> "kubernetes:apps/v1:Deployment",
   name |-> AppName, provider |-> "default",
   depends_on |-> {}, refs |-> {"config_map"},
   meta_name |-> AppName, namespace |-> v.namespace, labels |-> DayLabels,
   replicas |-> [has |-> TRUE, v |-> v.replicas],
   selector |-> DayDeploymentSelector,
   template_labels |-> DayLabels,
   container_port |-> 8080,
   config_map_ref |-> AppName \o S_config,
   liveness |-> [path |-> S_health, port |-> 8080],
   readiness |-> [path |-> S_ready, port |-> 8080]]

\* the Service targeting the port the gitops program's container listens on
DayServiceTargetDayPort(v) ==
  [id |-> "service", type |-> "kubernetes:core/v1:Service",
   name |-> AppName, provider |-> "default", depends_on |-> {}, refs |-> {},
   meta_name |-> AppName, namespace |-> v.namespace, labels |-> DayLabels,
   selector |-> DayServiceSelector, port |-> 80, target_port |-> 8001]

DayService(v) ==
  [id |-> "service", type |-> "kubernetes:core/v1:Service",
   name |-> AppName, provider |-> "default", depends_on |-> {}, refs |-> {},
   meta_name |-> AppName, namespace |-> v.namespace, labels |-> DayLabels,
   selector |-> DayServiceSelector, port |-> 80, target_port |-> 8080]

DayHpa(v) ==
  [id |-> "hpa", type |-> "kubernetes:autoscaling/v2:HorizontalPodAutoscaler",
   name |-> AppName \o S_hpa, provider |-> "default",
   depends_on |-> {}, refs |-> {},
   meta_name |-> AppName \o S_hpa, namespace |-> v.namespace,
   labels |-> DayLabels,
   scale_target |-> [kind |-> "Deployment", name |-> AppName],
   min_replicas |-> v.min_replicas, max_replicas |-> v.max_replicas,
   cpu_target |-> v.cpu_target, memory_target |-> v.memory_target]

DayIngress(v) ==
  [id |-> "ingress", type |-> "kubernetes:networking.k8s.io/v1:Ingress",
   name |-> AppName, provider |-> "default", depends_on |-> {}, refs |-> {},
   meta_name |-> AppName, namespace |-> v.namespace, labels |-> DayLabels,
   group_name |-> "none", healthcheck_path |-> S_health,
   host |-> <<>>, path |-> S_slash, path_type |-> "Prefix",
   backend |-> [name |-> AppName, port |-> 80]]

DayDecls(v) ==
  <<DayConfigMap(v), DayDeployment(v), DayService(v), DayHpa(v), DayIngress(v)>>

DayExports ==
  {"deployment_name", "service_name", "hpa_name", "ingress_name", "namespace",
   "replicas", "image", "alb_hostname"}

---------------------------------------------------------------------------
(* Registration of the resource block, the exports, and the engine *)

Decls(p, v) ==
  CASE p = "infra" -> InfraDecls(v)
    [] p = "gitops" -> GitopsDecls(v)
    [] p = "dayservice" -> DayDecls(v)

ExportsOf(p, v) ==
  CASE p = "infra" -> InfraExports
    [] p = "gitops" -> GitopsExports(v)
    [] p = "dayservice" -> DayExports

\* the next resource constructor of the program runs
Register ==
  /\ pc = "declare"
  /\ resources' = Append(resources, Decls(program, val)[idx])
  /\ idx' = idx + 1
  /\ pc' = IF idx = Len(Decls(program, val)) THEN "export" ELSE "declare"
  /\ UNCHANGED <<alb_hostname, app, program, cfg, infraStack, val, err, exports, realized>>

\* the pulumi.export calls that end the program; the graph is then submitted
Export ==
  /\ pc = "export"
  /\ exports' = ExportsOf(program, val)
  /\ pc' = "submitted"
  /\ UNCHANGED <<alb_hostname, app, program, cfg, infraStack, val, resources, idx, err, realized>>

Ids == {resources[i].id : i \in 1..Len(resources)}
Res(id) == resources[CHOOSE i \in 1..Len(resources) : resources[i].id = id]
Declared(id) == id \in Ids

\* what the engine waits for before it realizes r: depends_on, the resources
\* whose outputs r's properties read, and an explicit provider
Deps(r) ==
  r.depends_on \cup r.refs
    \cup (IF r.provider = "default" THEN {} ELSE {r.provider})

\* the engine realizes a resource whose dependencies are all realized
Apply(id) ==
  /\ pc = "submitted"
  /\ id \in Ids \ realized
  /\ Deps(Res(id)) \subseteq realized
  /\ realized' = realized \cup {id}
  /\ UNCHANGED <<alb_hostname, app, program, cfg, infraStack, pc, val, resources, idx, err, exports>>

AllIds ==
  {"vpc", "igw", "public_subnet_1", "public_subnet_2", "public_route_table",
   "public_rt_association_1", "public_rt_association_2", "cluster",
   "k8s_provider", "alb_policy", "alb_role", "alb_role_policy_attachment",
   "alb_service_account", "alb_controller", "infra_stack", "ns", "config_map",
   "deployment", "service", "hpa", "ingress"}

---------------------------------------------------------------------------
(* The alb_hostname export: a callback applied to the Ingress status *)

Hostnames == {"k8s-a.elb.amazonaws.com", "k8s-b.elb.amazonaws.com"}

RECURSIVE EntriesUpTo(_)
EntriesUpTo(n) ==
  IF n = 0 THEN {<<>>}
  ELSE LET shorter == EntriesUpTo(n - 1)
       IN  shorter \cup {Append(l, [hostname |-> h])
                           : l \in {x \in shorter : Len(x) = n - 1},
                             h \in Hostnames}

\* the shapes of ingress.status: status None, status.load_balancer None,
\* load_balancer.ingress None or a list of entries
NoIngressList == [none |-> TRUE, items |-> <<>>]
NoLoadBalancer == [none |-> TRUE, ingress |-> NoIngressList]
IngressStatuses ==
  {[none |-> TRUE, load_balancer |-> NoLoadBalancer]}
  \cup {[none |-> FALSE, load_balancer |-> NoLoadBalancer]}
  \cup {[none |-> FALSE,
         load_balancer |-> [none |-> FALSE, ingress |-> NoIngressList]]}
  \cup {[none |-> FALSE,
         load_balancer |-> [none |-> FALSE,
                            ingress |-> [none |-> FALSE, items |-> l]]]
          : l \in EntriesUpTo(MaxLbEntries)}

\* truth value of an object reference and of a list reference
Truthy(o) == ~o.none
TruthyList(l) == ~l.none /\ Len(l.items) > 0

Returns(v) == [raised |-> FALSE, value |-> v]
Raises(e) == [raised |-> TRUE, value |-> e]

\* status.load_balancer.ingress[0].hostname, evaluated without a guard
FirstHostname(status) ==
  IF status.none \/ status.load_balancer.none THEN Raises("AttributeError")
  ELSE IF status.load_balancer.ingress.none THEN Raises("TypeError")
  ELSE IF Len(status.load_balancer.ingress.items) = 0 THEN Raises("IndexError")
  ELSE Returns(status.load_balancer.ingress.items[1].hostname)

\* the callback guarded by `if status` alone
AlbHostnameStatusOnly(status, pending) ==
  IF Truthy(status) THEN FirstHostname(status) ELSE Returns(pending)

\* lambda status: ...hostname if status and status.load_balancer and
\* status.load_balancer.ingress else "pending"
AlbHostname(status, pending) ==
  IF /\ Truthy(status)
     /\ Truthy(status.load_balancer)
     /\ TruthyList(status.load_balancer.ingress)
  THEN FirstHostname(status)
  ELSE Returns(pending)

Pending(p) == IF p = "gitops" THEN "pending" ELSE "pending..."

\* ingress.status.apply(callback): runs once the Ingress is realized
ResolveAlbHostname ==
  /\ pc = "submitted"
  /\ program \in {"gitops", "dayservice"}
  /\ "ingress" \in realized
  /\ ~alb_hostname.resolved
  /\ \E status \in IngressStatuses :
       alb_hostname' = [resolved |-> TRUE, status |-> status,
                        result |-> AlbHostname(status, Pending(program))]
  /\ UNCHANGED <<app, program, cfg, infraStack, pc, val, resources, idx, err,
                 exports, realized>>

---------------------------------------------------------------------------
(* The example workload, services/day/main.py *)

S_development == <<"d","e","v","e","l","o","p","m","e","n","t">>

\* the environment of the process: each variable unset (None) or a string
Environments ==
  [ENVIRONMENT : {None, S_production, <<>>}, PORT : {None} \cup IntRaws]

\* os.getenv(name, default)
Getenv(e, name, default) == IF e[name] = None THEN default ELSE e[name]

\* python main.py: int(os.getenv("PORT", 8001)) raises ValueError for a value
\* that is no integer, and the process ends before it serves anything
Start ==
  /\ app.state = "stopped"
  /\ \E e \in Environments :
       app' = IF e.PORT # None /\ ~CanInt(e.PORT)
              THEN [app EXCEPT !.state = "crashed", !.env = e]
              ELSE [app EXCEPT !.state = "running", !.env = e,
                               !.port = IF e.PORT = None THEN 8001
                                        ELSE IntOf(e.PORT)]
  /\ UNCHANGED <<alb_hostname, program, cfg, infraStack, pc, val, resources,
                 idx, err, exports, realized>>

\* time passes between requests
Tick ==
  /\ app.clock < MaxClock
  /\ app' = [app EXCEPT !.clock = @ + 1]
  /\ UNCHANGED <<alb_hostname, program, cfg, infraStack, pc, val, resources,
                 idx, err, exports, realized>>

home(e, t) ==
  [code |-> 200,
   body |-> [service |-> "Day", message |-> "Welcome to the Day service",
             version |-> "1.0.0"]]

\* a health handler that reports on the ENVIRONMENT variable
healthByEnvironment(e, t) ==
  [code |-> IF e.ENVIRONMENT = None THEN 503 ELSE 200,
   body |-> [status |-> IF e.ENVIRONMENT = None THEN "unconfigured"
                        ELSE "healthy",
             service |-> "Day", timestamp |-> t]]

health(e, t) ==
  [code |-> 200,
   body |-> [status |-> "healthy", service |-> "Day", timestamp |-> t]]

info(e, t) ==
  [code |-> 200,
   body |-> [service |-> "Day", version |-> "1.0.0", hostname |-> "host",
             environment |-> Getenv(e, "ENVIRONMENT", S_development),
             timestamp |-> t]]

\* the paths clients ask for; /ready has no route
Paths == {"/", "/health", "/info", "/ready"}

\* the routes registered with @app.route; any other path is answered 404
Route(path, e, t) ==
  CASE path = "/" -> home(e, t)
    [] path = "/health" -> health(e, t)
    [] path = "/info" -> info(e, t)
    [] OTHER -> [code |-> 404, body |-> "Not Found"]

\* one GET request served by the running process
Request(path) ==
  /\ app.state = "running"
  /\ Len(app.requests) < MaxRequests
  /\ app' = [app EXCEPT
               !.requests = Append(@, path),
               !.response = [path |-> path, at |-> app.clock,
                             code |-> Route(path, app.env, app.clock).code,
                             body |-> Route(path, app.env, app.clock).body]]
  /\ UNCHANGED <<alb_hostname, program, cfg, infraStack, pc, val, resources,
                 idx, err, exports, realized>>

\* the request path of a declared health-check path
PathString(p) ==
  CASE p = S_slash -> "/"
    [] p = S_health -> "/health"
    [] p = S_ready -> "/ready"
    [] OTHER -> "/other"

\* the health checks a workload program declares: the two probes of the
\* container and the load balancer's health-check annotation
HealthChecks == {"liveness", "readiness", "alb"}

HealthCheckPath(kind) ==
  CASE kind = "liveness" -> Res("deployment").liveness.path
    [] kind = "readiness" -> Res("deployment").readiness.path
    [] kind = "alb" -> Res("ingress").healthcheck_path

\* the kubelet or the load balancer sends the declared check to a running pod
\* of the workload
Probe(kind) ==
  /\ program \in {"gitops", "dayservice"}
  /\ pc = "submitted"
  /\ Request(PathString(HealthCheckPath(kind)))

---------------------------------------------------------------------------
(* Specifications *)

Evaluate ==
  \/ InfraReadConfig
  \/ GitopsReadLinkConfig
  \/ GitopsStackReference
  \/ GitopsRequireOutput
  \/ GitopsProvider
  \/ GitopsReadConfig
  \/ DayReadConfig
  \/ Register
  \/ Export

Next == ConfigSet(Keys) \/ Evaluate

Spec == Init /\ [][Next]_vars

\* the runs whose graph the engine is followed on: only the keys that shape
\* the graph are set
GraphKeys == {"use_stack_reference", "namespace"}

NextEngine ==
  \/ ConfigSet(GraphKeys) \/ Evaluate \/ \E id \in AllIds : Apply(id)
  \/ ResolveAlbHostname

SpecEngine == Init /\ [][NextEngine]_vars

\* the workload process serving requests
NextService == Start \/ Tick \/ \E path \in Paths : Request(path)
SpecService == Init /\ [][NextService]_vars

\* a workload run followed by the health checks it declared
NextProbe ==
  \/ ConfigSet(GraphKeys) \/ Evaluate \/ Start \/ Tick
  \/ \E kind \in HealthChecks : Probe(kind)
SpecProbe == Init /\ [][NextProbe]_vars

---------------------------------------------------------------------------
(* Properties *)

\* the program has passed its configuration block
Resolved == pc \in {"declare", "export", "submitted"}

\* the value config.get_int / get_bool / get hands back for a configured key
Configured(k) ==
  IF k \in IntKeys THEN IntOf(cfg[k])
  ELSE IF k \in BoolKeys THEN cfg[k] \in {S_true, S_True}
  ELSE cfg[k]

\* C1: once the configuration block has run, every key the program reads with
\* a default and that the store configures resolves to the configured value
\* (false, 0 and the empty string included); the default is used only for an
\* absent key.
C1_ConfiguredValueWins ==
  Resolved =>
    \A k \in OptKeys(program) : cfg[k] # None => val[k] = Configured(k)

\* cross-run linking is enabled for this run
LinkEnabled ==
  /\ program = "gitops"
  /\ ~GetBoolRaises(cfg, "use_stack_reference")
  /\ UseStackReference(cfg)

C2_FailsUnresolved ==
  LinkEnabled /\ infraStack # "ok" =>
    /\ pc \in {"start", "stack_reference", "require_output", "failed"}
    /\ pc = "failed" => err = "UnresolvedReference"
    /\ val.kubeconfig = "unset"
    /\ val.provider_opts = "unset"
    /\ \A i \in 1..Len(resources) : resources[i].id = "infra_stack"

\* C2: with linking enabled and the referenced run missing or without a
\* kubeconfig output, the run ends in the unresolved-reference error: it never
\* holds a None kubeconfig, never builds a provider or a cluster resource (on
\* the ambient kubeconfig or otherwise), and once failed it stays failed with
\* nothing registered afterwards.
C2_UnresolvedReference ==
  /\ []C2_FailsUnresolved
  /\ [][pc = "failed" => pc' = "failed" /\ resources' = resources]_vars

C2_Witness ==
  /\ LinkEnabled /\ infraStack = "no_kubeconfig"
  /\ pc = "failed" /\ err = "UnresolvedReference"
  /\ Declared("infra_stack")

TierMarker == S_day \o S_dash \o S_rc
CarriesTier(x) == Contains(x, TierMarker)

\* the five resource names and the host of the gitops program, as declared
TierNamed ==
  {<<"deployment", "meta_name">>, <<"service", "meta_name">>,
   <<"ingress", "meta_name">>, <<"config_map", "meta_name">>,
   <<"hpa", "meta_name">>, <<"ingress", "host">>}

\* C3: in the gitops program the tier is rc or production; under rc each of
\* the deployment, service, ingress, configmap and HPA names and the ingress
\* host carries the marker day-rc, under production none of them does.
C3_TierMarker ==
  program = "gitops" /\ Resolved =>
    /\ val.tier \in {S_rc, S_production}
    /\ \A f \in TierNamed :
         Declared(f[1]) => (CarriesTier(Res(f[1])[f[2]]) <=> val.tier = S_rc)

C3_Witness ==
  /\ program = "gitops" /\ pc = "submitted"
  /\ val.tier = S_rc /\ val.namespace # S_rc
  /\ \A f \in TierNamed : CarriesTier(Res(f[1])[f[2]])

\* C4: in each workload program the Deployment's match-label selector and the
\* Service's selector are the same map (same keys, same values).
C4_SelectorsEqual ==
  Declared("deployment") /\ Declared("service") =>
    Res("deployment").selector = Res("service").selector

C4_Witness ==
  /\ program = "gitops" /\ val.tier = S_rc
  /\ Declared("deployment") /\ Declared("service")
  /\ DOMAIN Res("service").selector = {"app", "tier"}

\* the first n bits of octet i
Top(octet, n) == octet \div Pow2(8 - n)
\* two blocks share an address iff they agree on the shorter prefix
Overlap(x, y) ==
  LET m == IF x[5] < y[5] THEN x[5] ELSE y[5]
  IN \A i \in 1..4 : Top(x[i], BitsIn(m, i)) = Top(y[i], BitsIn(m, i))
\* every address of x is an address of b
Within(x, b) ==
  /\ x[5] >= b[5]
  /\ \A i \in 1..4 : Top(x[i], BitsIn(b[5], i)) = Top(b[i], BitsIn(b[5], i))

SubnetsDeclared == Declared("public_subnet_1") /\ Declared("public_subnet_2")

\* C5 as stated: for every valid block the two subnets are disjoint and
\* inside the block.
C5_SubnetsWithinBlock ==
  SubnetsDeclared =>
    /\ ~Overlap(Res("public_subnet_1").cidr_block,
                Res("public_subnet_2").cidr_block)
    /\ Within(Res("public_subnet_1").cidr_block, Res("vpc").cidr_block)
    /\ Within(Res("public_subnet_2").cidr_block, Res("vpc").cidr_block)

\* C5 amended: the two subnets are disjoint for every valid block, and inside
\* the block when its prefix length is at most 16.
C5_SubnetsWithinWideBlock ==
  SubnetsDeclared =>
    /\ ~Overlap(Res("public_subnet_1").cidr_block,
                Res("public_subnet_2").cidr_block)
    /\ Res("vpc").cidr_block[5] <= 16 =>
         /\ Within(Res("public_subnet_1").cidr_block, Res("vpc").cidr_block)
         /\ Within(Res("public_subnet_2").cidr_block, Res("vpc").cidr_block)

C5_Witness ==
  /\ SubnetsDeclared
  /\ cfg["vpc_cidr"] # None
  /\ Res("vpc").cidr_block = cfg["vpc_cidr"]
  /\ Res("vpc").cidr_block[5] < 16
  /\ Res("vpc").cidr_block[2] = 16
  /\ Within(Res("public_subnet_2").cidr_block, Res("vpc").cidr_block)

\* C6: no HorizontalPodAutoscaler is declared with min > max or with a
\* utilization target outside (0,100]: such a configuration is rejected
\* before the autoscaler is declared.
C6_ScalingPolicyValid ==
  Declared("hpa") =>
    /\ Res("hpa").min_replicas <= Res("hpa").max_replicas
    /\ Res("hpa").cpu_target \in 1..100
    /\ Res("hpa").memory_target \in 1..100

\* C7: the declared cluster has min_size <= desired_capacity <= max_size.
C7_NodeBoundsOrdered ==
  Declared("cluster") =>
    /\ Res("cluster").args.min_size <= Res("cluster").args.desired_capacity
    /\ Res("cluster").args.desired_capacity <= Res("cluster").args.max_size

\* namespace production, every other key left to its default, graph complete
ProductionDefaults ==
  /\ program = "gitops" /\ pc = "submitted"
  /\ val.namespace = S_production
  /\ \A k \in Keys \ {"namespace"} : cfg[k] = None

C8_Common ==
  /\ Res("deployment").meta_name = S_day
  /\ Res("service").port = 80 /\ Res("service").target_port = 8001
  /\ Res("hpa").min_replicas = 2 /\ Res("hpa").max_replicas = 10
  /\ Res("hpa").cpu_target = 70 /\ Res("hpa").memory_target = 80
  /\ Res("ingress").path = S_slash /\ Res("ingress").path_type = "Prefix"
  /\ Res("ingress").backend.port = 80

\* C8 as stated: the Service is named day and the Ingress forwards to day:80.
C8_ProductionGraphDay ==
  ProductionDefaults =>
    /\ C8_Common
    /\ Res("service").meta_name = S_day
    /\ Res("ingress").backend.name = S_day

\* C8 amended: with namespace production and all other keys defaulted the run
\* declares Deployment day, Service day-service exposing 80 -> 8001, an
\* autoscaler bounded [2,10] at 70% CPU / 80% memory, and an Ingress whose
\* "/" prefix rule forwards to day-service:80.
C8_ProductionGraph ==
  ProductionDefaults =>
    /\ C8_Common
    /\ Res("service").meta_name = S_day_service
    /\ Res("ingress").backend.name = S_day_service

C8_Witness ==
  /\ ProductionDefaults
  /\ cfg["namespace"] = S_production
  /\ Res("service").meta_name = S_day_service

Namespaced == {"config_map", "deployment", "service", "hpa", "ingress"}

\* C9: in the gitops program each of the ConfigMap, Deployment, Service, HPA
\* and Ingress declares depends_on the Namespace, and the engine realizes
\* none of them before the Namespace.
C9_NamespaceFirst ==
  program = "gitops" =>
    \A id \in Namespaced :
      /\ Declared(id) => "ns" \in Res(id).depends_on
      /\ id \in realized => "ns" \in realized

C9_Witness ==
  /\ program = "gitops"
  /\ "ns" \in realized
  /\ realized \cap Namespaced = {"service"}

\* C10: a Deployment that a declared HorizontalPodAutoscaler targets declares
\* no replica count.
C10_NoReplicasUnderHpa ==
  (/\ Declared("hpa") /\ Declared("deployment")
   /\ Res("hpa").scale_target.name = Res("deployment").meta_name)
    => ~Res("deployment").replicas.has

\* C11: a configuration error (a required key absent, a value that does not
\* coerce to the type asked for) ends the run with no resource, stack
\* reference or provider registered.
C11_ConfigErrorBeforeResources ==
  err \in {"MissingConfigError", "ConfigTypeError"} => resources = <<>>

NetworkIds ==
  {"vpc", "igw", "public_subnet_1", "public_subnet_2", "public_route_table",
   "public_rt_association_1", "public_rt_association_2"}

\* C12: in the infrastructure run the engine realizes the cluster only after
\* the VPC, the internet gateway, both subnets, the route table and both
\* route-table associations.
C12_NetworkBeforeCluster ==
  program = "infra" /\ "cluster" \in realized => NetworkIds \subseteq realized

\* C13 as stated: no two resources registered in a run have the same name.
C13_NamesUnique ==
  \A i, j \in 1..Len(resources) :
    i # j => resources[i].name # resources[j].name

\* C13 amended: no two resources registered in a run have the same type and
\* name.
C13_TypedNamesUnique ==
  \A i, j \in 1..Len(resources) :
    i # j => \/ resources[i].type # resources[j].type
             \/ resources[i].name # resources[j].name

C13_Witness ==
  /\ program = "infra"
  /\ Declared("alb_service_account") /\ Declared("alb_controller")
  /\ Res("alb_service_account").name = Res("alb_controller").name
  /\ Res("alb_service_account").type # Res("alb_controller").type

ClusterResources == Namespaced \cup {"ns"}

\* C14: in the gitops program, with use_stack_reference configured false no
\* stack reference or provider is registered, no kubeconfig is read and every
\* cluster resource is on the default connection; with it unset or true every
\* cluster resource is on the one explicit provider, built from the
\* infrastructure run's kubeconfig. The exports name the referenced run
\* exactly in the second mode.
C14_OneConnectionMode ==
  program = "gitops" /\ pc \notin {"start", "failed"} =>
    IF LinkEnabled
    THEN /\ \A id \in ClusterResources :
              Declared(id) => /\ Res(id).provider = "k8s_provider"
                              /\ Declared("infra_stack")
                              /\ Declared("k8s_provider")
                              /\ Res("k8s_provider").kubeconfig = "infra"
         /\ pc = "submitted" => "infra_stack_referenced" \in exports
    ELSE /\ ~Declared("infra_stack") /\ ~Declared("k8s_provider")
         /\ val.kubeconfig = "unset"
         /\ \A id \in ClusterResources :
              Declared(id) => Res(id).provider = "default"
         /\ pc = "submitted" => "infra_stack_referenced" \notin exports

C14_Witness ==
  /\ program = "gitops" /\ pc = "submitted"
  /\ cfg["use_stack_reference"] = None
  /\ \A id \in ClusterResources : Res(id).provider = "k8s_provider"
  /\ Res("k8s_provider").kubeconfig = "infra"

\* C15: every response of the example workload to /health is HTTP 200 with
\* body status 'healthy', service 'Day' and the time of the request as its
\* timestamp, whatever requests came before and whatever the environment
\* variables are.
C15_HealthAlwaysHealthy ==
  app.response.path = "/health" =>
    /\ app.response.code = 200
    /\ app.response.body = [status |-> "healthy", service |-> "Day",
                            timestamp |-> app.response.at]

C15_Witness ==
  /\ Len(app.requests) = MaxRequests
  /\ app.requests[1] = "/info" /\ app.requests[2] = "/ready"
  /\ app.env.ENVIRONMENT = None /\ app.env.PORT # None
  /\ app.response.path = "/health" /\ app.response.code = 200
  /\ app.response.at > 0

\* the status carries at least one load-balancer entry
HasEntry(status) ==
  /\ ~status.none
  /\ ~status.load_balancer.none
  /\ ~status.load_balancer.ingress.none
  /\ Len(status.load_balancer.ingress.items) >= 1

\* C16: for every Ingress status (absent status, absent load balancer, absent
\* or empty entry list, one or more entries) the alb_hostname callback returns
\* without raising: the program's placeholder when there is no load-balancer
\* entry, the hostname of the first entry otherwise.
C16_AlbHostnameTotal ==
  alb_hostname.resolved =>
    /\ ~alb_hostname.result.raised
    /\ alb_hostname.result.value =
         IF HasEntry(alb_hostname.status)
         THEN alb_hostname.status.load_balancer.ingress.items[1].hostname
         ELSE Pending(program)

C16_Witness ==
  /\ program = "gitops" /\ alb_hostname.resolved
  /\ ~alb_hostname.status.none
  /\ ~alb_hostname.status.load_balancer.none
  /\ ~alb_hostname.status.load_balancer.ingress.none
  /\ alb_hostname.status.load_balancer.ingress.items = <<>>
  /\ alb_hostname.result = [raised |-> FALSE, value |-> "pending"]

Workload == program \in {"gitops", "dayservice"}

\* C17: in each workload run every by-name reference names a resource
\* declared in the same run and namespace: the autoscaler's scale target is
\* the Deployment, the Ingress backend is the Service, the container's
\* config-map reference is the ConfigMap.
C17_ReferencesResolve ==
  Workload =>
    /\ Declared("hpa") =>
         /\ Declared("deployment")
         /\ Res("hpa").scale_target.kind = "Deployment"
         /\ Res("hpa").scale_target.name = Res("deployment").meta_name
         /\ Res("hpa").namespace = Res("deployment").namespace
    /\ Declared("ingress") =>
         /\ Declared("service")
         /\ Res("ingress").backend.name = Res("service").meta_name
         /\ Res("ingress").namespace = Res("service").namespace
    /\ Declared("deployment") =>
         /\ Declared("config_map")
         /\ Res("deployment").config_map_ref = Res("config_map").meta_name
         /\ Res("deployment").namespace = Res("config_map").namespace

C17_Witness ==
  /\ program = "gitops" /\ pc = "submitted" /\ val.tier = S_rc
  /\ Res("hpa").scale_target.name = S_day \o S_dash \o S_rc
  /\ Res("deployment").meta_name = S_day \o S_dash \o S_rc
  /\ Res("ingress").backend.name = Res("service").meta_name
  /\ Res("deployment").config_map_ref = Res("config_map").meta_name

\* every label of f is a label of g with the same value
SubMap(f, g) ==
  \A k \in DOMAIN f : k \in DOMAIN g /\ f[k] = g[k]

\* C18: in both workload programs the Deployment's match-label selector is a
\* sub-map of its pod template's labels.
C18_SelectorWithinPodLabels ==
  Workload /\ Declared("deployment") =>
    SubMap(Res("deployment").selector, Res("deployment").template_labels)

C18_Witness ==
  /\ program = "gitops" /\ Declared("deployment") /\ val.tier = S_rc
  /\ "tier" \in DOMAIN Res("deployment").selector
  /\ DOMAIN Res("deployment").selector
       # DOMAIN Res("deployment").template_labels
  /\ SubMap(Res("deployment").selector, Res("deployment").template_labels)

\* C19: in each workload program the Ingress backend port is the Service's
\* port, the Service's target port is the container port, and the liveness
\* and readiness probes use the container port.
C19_PortChain ==
  Workload =>
    /\ Declared("ingress") =>
         Res("ingress").backend.port = Res("service").port
    /\ Declared("service") =>
         Res("service").target_port = Res("deployment").container_port
    /\ Declared("deployment") =>
         /\ Res("deployment").liveness.port = Res("deployment").container_port
         /\ Res("deployment").readiness.port = Res("deployment").container_port

C19_Witness ==
  /\ program = "dayservice" /\ pc = "submitted"
  /\ Res("ingress").backend.port = 80 /\ Res("service").port = 80
  /\ Res("service").target_port = 8080
  /\ Res("deployment").container_port = 8080
  /\ Res("deployment").readiness.port = 8080

\* the namespaces another gitops run can resolve
OtherNamespaces == Namespaces \ {<<>>, val.namespace}

\* C20 as stated: a gitops run's Ingress host differs from the host of every
\* run in another namespace.
C20_HostsDifferByNamespace ==
  program = "gitops" /\ Declared("ingress") =>
    \A ns2 \in OtherNamespaces :
      IngressHost(Tier(ns2)) # Res("ingress").host

\* C20 amended: a gitops run's Ingress host is the host of a run in another
\* namespace exactly when the two namespaces derive the same tier.
C20_HostsDifferByTier ==
  program = "gitops" /\ Declared("ingress") =>
    \A ns2 \in OtherNamespaces :
      (IngressHost(Tier(ns2)) = Res("ingress").host) <=> (Tier(ns2) = val.tier)

C20_Witness ==
  /\ program = "gitops" /\ Declared("ingress")
  /\ val.namespace = S_rc
  /\ Res("ingress").host = IngressHost(Tier(<<"r", "c", "p">>))
  /\ Res("ingress").host # IngressHost(Tier(S_production))

\* C21: every health check a workload program declares (liveness probe,
\* readiness probe, load-balancer health-check annotation) is answered
\* HTTP 200 by a running pod of the example workload.
C21_HealthChecksServed ==
  Workload /\ pc = "submitted" /\ app.response.path # "none" =>
    app.response.code = 200

====
